---- MODULE Spec2Model ----
(***************************************************************************)
(* Model of the emit_elasticsearch collector (src/src/lib.rs): index       *)
(* naming, bulk payload construction, index-template payload construction  *)
(* and the accept_events / send_template handlers of ElasticCollector.     *)
(*                                                                         *)
(* Text is modelled byte for byte: a string is a sequence of one-character *)
(* strings, so that concatenation, line structure and field contents are   *)
(* what the code writes and not an abstraction of it.                      *)
(***************************************************************************)
EXTENDS Integers, Sequences, FiniteSets, TLC

(***************************************************************************)
(* Bounds of the model.                                                    *)
(***************************************************************************)
\* Longest slice of events handed to one accept_events call.
MaxEvents == 2

\* Longest slice handed to a call when two callers run concurrently.
MaxConcEvents == 2

\* The callers of accept_events: one in Spec, both in SpecConc.
Threads == {1, 2}

(***************************************************************************)
(* Text helpers.                                                           *)
(***************************************************************************)
NL == "\n"

QUOTE == "\""

DigitChars == <<"0","1","2","3","4","5","6","7","8","9">>

HexChars == <<"0","1","2","3","4","5","6","7","8","9","a","b","c","d","e","f">>

\* The characters of message texts, for the template hash.
Alphabet == <<"0","1","2","3","4","5","6","7","8","9"," ","!",",","{","}","T","H","a","b","e","h","i","l","m","n","o","r","s","u">>

IsDigit(c) == \E k \in 1..10 : DigitChars[k] = c

DigitValue(c) == (CHOOSE k \in 1..10 : DigitChars[k] = c) - 1

RECURSIVE Pad(_, _)
\* n in decimal, zero padded to w digits (the low w digits of n).
Pad(n, w) == IF w = 0 THEN <<>> ELSE Pad(n \div 10, w - 1) \o <<DigitChars[(n % 10) + 1]>>

\* Whether sub occurs in s at position p.
OccursAt(sub, s, p) == /\ p >= 1
                       /\ p + Len(sub) - 1 <= Len(s)
                       /\ SubSeq(s, p, p + Len(sub) - 1) = sub

\* The positions at which sub occurs in s.
Occurrences(sub, s) ==
  {p \in 1..(Len(s) - Len(sub) + 1) : s[p] = sub[1] /\ OccursAt(sub, s, p)}

\* First position of sub (not empty) in s, 0 when there is none.
Find(sub, s) == LET ps == Occurrences(sub, s)
                IN IF ps = {} THEN 0 ELSE CHOOSE p \in ps : \A q \in ps : p <= q

Contains(sub, s) == Occurrences(sub, s) # {}

\* The text of s from position p up to, not including, the next stop character.
RECURSIVE TakeUntil(_, _, _)
TakeUntil(s, p, stop) == IF p > Len(s) \/ s[p] = stop THEN <<>>
                         ELSE <<s[p]>> \o TakeUntil(s, p + 1, stop)

\* The lines of a buffer: the text before each newline, in order, and the
\* text after the last newline when there is any.
SplitLines(b) ==
  LET ends == {p \in 1..Len(b) : b[p] = NL}
      stops == IF b = <<>> \/ b[Len(b)] = NL THEN ends ELSE ends \cup {Len(b) + 1}
      stop(k) == CHOOSE p \in stops : Cardinality({q \in stops : q < p}) = k - 1
  IN [k \in 1..Cardinality(stops) |->
        SubSeq(b, (IF k = 1 THEN 0 ELSE stop(k - 1)) + 1, stop(k) - 1)]

\* Every line of the buffer ends with a newline.
NewlineTerminated(b) == b = <<>> \/ b[Len(b)] = NL

\* The value of the JSON string member "key":"..." of an object written on one line.
StringField(line, key) == LET tag == <<QUOTE>> \o key \o <<QUOTE, ":", QUOTE>>
                              p == Find(tag, line)
                          IN TakeUntil(line, p + Len(tag), QUOTE)

HasField(line, key) == Contains(<<QUOTE>> \o key \o <<QUOTE, ":">>, line)

(***************************************************************************)
(* Constants of the crate.                                                 *)
(***************************************************************************)
\* "emitlog"
TYPENAME == <<"e","m","i","t","l","o","g">>

\* "http://localhost:9200/"
LOCAL_SERVER_URL == "http://localhost:9200/"

\* "emitlog-"
DEFAULT_TEMPLATE_PREFIX == <<"e","m","i","t","l","o","g","-">>

\* "%Y%m%d"
DEFAULT_TEMPLATE_FORMAT == <<"%","Y","%","m","%","d">>

(***************************************************************************)
(* IndexTemplate.                                                          *)
(***************************************************************************)
IndexTemplate_new(prefix, date_format) == [prefix |-> prefix, date_format |-> date_format]

IndexTemplate_default == [prefix |-> DEFAULT_TEMPLATE_PREFIX, date_format |-> DEFAULT_TEMPLATE_FORMAT]

\* One strftime item of chrono's DateTime::format, for the items index names use.
StrftimeItem(c, date) ==
  CASE c = "Y" -> Pad(date.year, 4)
    [] c = "m" -> Pad(date.month, 2)
    [] c = "d" -> Pad(date.day, 2)
    [] c = "H" -> Pad(date.hour, 2)
    [] c = "M" -> Pad(date.minute, 2)
    [] c = "S" -> Pad(date.second, 2)
    [] c = "%" -> <<"%">>
    [] OTHER -> <<>>

RECURSIVE Strftime(_, _)
\* date.format(fmt).to_string(): items start with %, everything else is literal.
Strftime(fmt, date) ==
  IF fmt = <<>> THEN <<>>
  ELSE IF fmt[1] = "%" /\ Len(fmt) >= 2
       THEN StrftimeItem(fmt[2], date) \o Strftime(SubSeq(fmt, 3, Len(fmt)), date)
       ELSE <<fmt[1]>> \o Strftime(Tail(fmt), date)

\* A plausible slip: the formatted date pushed before the prefix.
Index_DateFirst(template, date) ==
  LET df == Strftime(template.date_format, date)
  IN df \o template.prefix

\* IndexTemplate::index: the prefix, then the formatted date.
Index(template, date) ==
  LET df == Strftime(template.date_format, date)
      fmtd0 == <<>>
      fmtd1 == fmtd0 \o template.prefix
      fmtd2 == fmtd1 \o df
  IN fmtd2

(***************************************************************************)
(* Events (emit::events::Event, consumed): timestamp, level, message       *)
(* template text and properties.  Properties are a BTreeMap, modelled as   *)
(* the sequence of its entries in key order; a value is its JSON text.     *)
(***************************************************************************)
Date(y, mo, d, h, mi, s, ms) ==
  [year |-> y, month |-> mo, day |-> d, hour |-> h, minute |-> mi, second |-> s, milli |-> ms]

Event(ts, level, text, props) ==
  [timestamp |-> ts, level |-> level, template |-> text, properties |-> props]

HasProperty(props, name) == \E k \in 1..Len(props) : props[k].name = name

PropertyValue(props, name) == props[CHOOSE k \in 1..Len(props) : props[k].name = name].value

\* A plausible slip: a placeholder without a property is left in the message.
MissingProperty_Verbatim(name) == <<"{">> \o name \o <<"}">>

\* What a placeholder whose property is absent is replaced by: nothing.
MissingProperty(name) == <<>>

RECURSIVE Replace(_, _)
\* MessageTemplateRepl::replace: each {name} becomes the property's text.
Replace(text, props) ==
  IF text = <<>> THEN <<>>
  ELSE IF text[1] = "{" /\ Contains(<<"}">>, text)
       THEN LET close == Find(<<"}">>, text)
                name == SubSeq(text, 2, close - 1)
                sub == IF HasProperty(props, name) THEN PropertyValue(props, name)
                       ELSE MissingProperty(name)
            IN sub \o Replace(SubSeq(text, close + 1, Len(text)), props)
       ELSE <<text[1]>> \o Replace(Tail(text), props)

\* The rendered message of an event.
RenderMessage(evt) == Replace(evt.template, evt.properties)

\* log::LogLevel's Display form.
LevelText(level) ==
  CASE level = "Error" -> <<"E","R","R","O","R">>
    [] level = "Warn" -> <<"W","A","R","N">>
    [] level = "Info" -> <<"I","N","F","O">>
    [] level = "Debug" -> <<"D","E","B","U","G">>
    [] level = "Trace" -> <<"T","R","A","C","E">>

\* The "@t" text: 2014-07-08T09:10:11.000Z.
IsoTimestamp(date) ==
  Pad(date.year, 4) \o <<"-">> \o Pad(date.month, 2) \o <<"-">> \o Pad(date.day, 2)
  \o <<"T">> \o Pad(date.hour, 2) \o <<":">> \o Pad(date.minute, 2) \o <<":">>
  \o Pad(date.second, 2) \o <<".">> \o Pad(date.milli, 3) \o <<"Z">>

CharCode(c) == CHOOSE k \in 1..Len(Alphabet) : Alphabet[k] = c

RECURSIVE HashText(_, _)
\* A hash of a text, folded over its characters (kept within 24 bits).
HashText(text, h) ==
  IF text = <<>> THEN h
  ELSE HashText(Tail(text), (h * 31 + CharCode(text[1])) % (2 ^ 24))

RECURSIVE Hex(_, _)
Hex(n, w) == IF w = 0 THEN <<>> ELSE Hex(n \div 16, w - 1) \o <<HexChars[(n % 16) + 1]>>

\* A plausible slip: the id taken from the rendered message.
IdSource_Rendered(evt) == RenderMessage(evt)

\* The text the "@i" id is the hash of: the message template's text.
IdSource(evt) == evt.template

\* The "@i" text: eight hex digits.
EventId(evt) == Hex(HashText(IdSource(evt), 7), 8)

\* A plausible slip: the level written for every event.
WritesLevel_Always(level) == TRUE

\* Whether the formatter writes "@l": not for Info, the implied level.
WritesLevel(level) == level # "Info"

RECURSIVE WriteProperties(_)
WriteProperties(props) ==
  IF props = <<>> THEN <<>>
  ELSE <<",", QUOTE>> \o Head(props).name \o <<QUOTE, ":">> \o Head(props).value
       \o WriteProperties(Tail(props))

\* RenderedJsonFormatter::write_event: the document of one event, on one line.
WriteEvent(evt) ==
  <<"{","\"","@","t","\"",":","\"">> \o IsoTimestamp(evt.timestamp)
  \o <<"\"",",","\"","@","m","\"",":","\"">> \o RenderMessage(evt)
  \o <<"\"",",","\"","@","i","\"",":","\"">> \o EventId(evt) \o <<QUOTE>>
  \o (IF WritesLevel(evt.level)
      THEN <<",","\"","@","l","\"",":","\"">> \o LevelText(evt.level) \o <<QUOTE>>
      ELSE <<>>)
  \o WriteProperties(evt.properties)
  \o <<"}">>

\* A plausible slip: the document's terminating newline forgotten.
BatchEntry_NoNewline(evt, idx) ==
  <<"{","\"","i","n","d","e","x","\"",":","{","\"","_","i","n","d","e","x","\"",":","\"">> \o idx \o <<"\"",",","\"","_","t","y","p","e","\"",":","\"">> \o TYPENAME \o <<"\"","}","}","\n">>
  \o WriteEvent(evt)

\* One iteration of build_batch's loop, idx being template.index(timestamp):
\* the action line, then the document, each ended by a newline.
BatchEntry(evt, idx) ==
  <<"{","\"","i","n","d","e","x","\"",":","{","\"","_","i","n","d","e","x","\"",":","\"">> \o idx \o <<"\"",",","\"","_","t","y","p","e","\"",":","\"">> \o TYPENAME \o <<"\"","}","}","\n">>
  \o WriteEvent(evt) \o <<NL>>

\* The pattern in the comment above the write: seconds missing, T unquoted.
EsDateFormat_FromComment == <<"y","y","y","y","-","M","M","-","d","d","T","H","H",":","m","m",":","S","S","S","Z">>

\* The date pattern registered for "@t".
EsDateFormat == <<"y","y","y","y","-","M","M","-","d","d","'","T","'","H","H",":","m","m",":","s","s",".","S","S","S","Z">>

\* A plausible slip: the prefix registered without the glob.
BuildIndexTemplate_NoGlob(template) ==
  <<"{","\"","t","e","m","p","l","a","t","e","\"",":","\"">> \o template.prefix \o <<"\"",",","\"","m","a","p","p","i","n","g","s","\"",":","{","\"">> \o TYPENAME
  \o <<"\"",":","{","\"","p","r","o","p","e","r","t","i","e","s","\"",":","{","\"","@","t","\"",":","{","\"","t","y","p","e","\"",":","\"","d","a","t","e","\"",",","\"","f","o","r","m","a","t","\"",":","\"">> \o EsDateFormat \o <<"\"","}","}","}","}","}">>

\* build_index_template: the index template registration payload.
BuildIndexTemplate(template) ==
  <<"{","\"","t","e","m","p","l","a","t","e","\"",":","\"">> \o template.prefix \o <<"*","\"",",","\"","m","a","p","p","i","n","g","s","\"",":","{","\"">> \o TYPENAME
  \o <<"\"",":","{","\"","p","r","o","p","e","r","t","i","e","s","\"",":","{","\"","@","t","\"",":","{","\"","t","y","p","e","\"",":","\"","d","a","t","e","\"",",","\"","f","o","r","m","a","t","\"",":","\"">> \o EsDateFormat \o <<"\"","}","}","}","}","}">>

(***************************************************************************)
(* ElasticCollector and the HTTP sink.                                     *)
(***************************************************************************)
\* RequestParams::new(server_url, Headers::new()) with the naming template.
ElasticCollector_new(server_url, index_template) ==
  [params |-> [base_url |-> server_url, authorization |-> "none"],
   template |-> index_template]

ElasticCollector_new_local(index_template) ==
  ElasticCollector_new(LOCAL_SERVER_URL, index_template)

ElasticCollector_with_auth(self, auth) ==
  [self EXCEPT !.params.authorization = auth]

ElasticCollector_default == ElasticCollector_new_local(IndexTemplate_default)

\* What the sink answers to a request.
Outcomes == {"ok", "fail"}

\* A plausible slip: a failed bulk request sent a second time.
SendBatch_Retry(params, payload, outcome) ==
  [posts |-> IF outcome = "ok" THEN <<[params |-> params, body |-> payload]>>
             ELSE <<[params |-> params, body |-> payload], [params |-> params, body |-> payload]>>,
   ret |-> IF outcome = "ok" THEN "Ok" ELSE "Err"]

\* A plausible slip: nothing sent for an empty payload.
SendBatch_SkipEmpty(params, payload, outcome) ==
  IF payload = <<>> THEN [posts |-> <<>>, ret |-> "Ok"]
  ELSE [posts |-> <<[params |-> params, body |-> payload]>>,
        ret |-> IF outcome = "ok" THEN "Ok" ELSE "Err"]

\* send_batch: one bulk POST of the payload; the sink's answer decides the result.
SendBatch(params, payload, outcome) ==
  [posts |-> <<[params |-> params, body |-> payload]>>,
   ret |-> IF outcome = "ok" THEN "Ok" ELSE "Err"]

\* A plausible slip: one buffer kept for all calls.
BufOf_Shared(t) == 1

\* The buffer a build_batch call writes to: a fresh one of its own.
BufOf(t) == t

(***************************************************************************)
(* Inputs.                                                                 *)
(***************************************************************************)
\* "The number is {number}"
NumberTemplate == <<"T","h","e"," ","n","u","m","b","e","r"," ","i","s"," ","{","n","u","m","b","e","r","}">>

\* "Hello, {name}!"
HelloTemplate == <<"H","e","l","l","o",","," ","{","n","a","m","e","}","!">>

Prop(name, value) == [name |-> name, value |-> value]

TestDate == Date(2014, 7, 8, 9, 10, 11, 0)

EvWarn == Event(TestDate, "Warn", NumberTemplate, <<Prop(<<"n","u","m","b","e","r">>, <<"4","2">>)>>)

EvInfo == Event(TestDate, "Info", NumberTemplate, <<>>)

EvError == Event(Date(2016, 12, 31, 23, 59, 59, 999), "Error", HelloTemplate,
                 <<Prop(<<"n","a","m","e">>, <<"7">>), Prop(<<"r","o","o","m">>, <<"1","2">>)>>)

EvDebug == Event(Date(2015, 1, 2, 3, 4, 5, 60), "Debug", NumberTemplate,
                 <<Prop(<<"n","u","m","b","e","r">>, <<"7">>)>>)

EvTrace == Event(Date(2014, 7, 8, 0, 0, 0, 1), "Trace", HelloTemplate, <<>>)

EventPool == {EvWarn, EvInfo, EvError, EvDebug, EvTrace}

ConcEventPool == {EvWarn, EvError}

Slices(pool, n) == UNION {[1..k -> pool] : k \in 0..n}

\* "testlog-"
TestPrefix == <<"t","e","s","t","l","o","g","-">>

IndexTemplates ==
  {IndexTemplate_default,
   IndexTemplate_new(TestPrefix, <<"%","Y">>),
   IndexTemplate_new(TestPrefix, <<"%","Y","%","m">>),
   IndexTemplate_new(TestPrefix, <<"%","Y","%","m","%","d">>),
   IndexTemplate_new(<<"l","o","g","s","-">>, <<"%","Y","-","%","m","-","%","d">>),
   IndexTemplate_new(<<>>, <<"%","Y",".","%","m",".","%","d","-","%","H">>)}

Collectors ==
  {ElasticCollector_default}
  \cup {ElasticCollector_new_local(tp) : tp \in IndexTemplates}
  \cup {ElasticCollector_with_auth(ElasticCollector_new("http://es:9200/", tp), "Basic dXNlcg==") :
          tp \in IndexTemplates}

ConcCollectors ==
  {ElasticCollector_default,
   ElasticCollector_with_auth(
     ElasticCollector_new("http://es:9200/", IndexTemplate_new(<<"l","o","g","s","-">>, <<"%","Y","-","%","m","-","%","d">>)),
     "Basic dXNlcg==")}

(***************************************************************************)
(* State.                                                                  *)
(***************************************************************************)
VARIABLES
  collector,     \* the ElasticCollector: params and template
  alive,         \* whether the collector still exists (send_template consumes it)
  templateSent,  \* whether an index template request has succeeded
  tplReq,        \* the requests send_template issued, latest last (at most one kept)
  pc,            \* per caller: "idle", "build" (inside build_batch), "done" (returned)
  evts,          \* per caller: the slice of events of its call
  i,             \* per caller: events of the slice already written
  idx,           \* per caller: the index name of the latest iteration
  buf,           \* the buffers build_batch writes to
  payload,       \* per caller: what build_batch returned
  sent,          \* per caller: the bulk requests its call issued, in order
  resp,          \* per caller: what the sink answered
  result         \* per caller: what accept_events returned

vars == <<collector, alive, templateSent, tplReq, pc, evts, i, idx, buf, payload, sent, resp, result>>

InitWith(cs) ==
  /\ collector \in cs
  /\ alive = TRUE
  /\ templateSent = FALSE
  /\ tplReq = <<>>
  /\ pc = [t \in Threads |-> "idle"]
  /\ evts = [t \in Threads |-> <<>>]
  /\ i = [t \in Threads |-> 0]
  /\ idx = [t \in Threads |-> <<>>]
  /\ buf = [t \in Threads |-> <<>>]
  /\ payload = [t \in Threads |-> <<>>]
  /\ sent = [t \in Threads |-> <<>>]
  /\ resp = [t \in Threads |-> "none"]
  /\ result = [t \in Threads |-> "none"]

Init == InitWith(Collectors)

InitConc == InitWith(ConcCollectors)

\* send_template(self): builds the payload, PUTs it as template "emitlog", and
\* gives the collector back only when the request succeeded.
SendTemplate(outcome) ==
  /\ alive
  /\ \A t \in Threads : pc[t] # "build"
  /\ tplReq' = <<[name |-> TYPENAME, params |-> collector.params,
                  body |-> BuildIndexTemplate(collector.template)]>>
  /\ templateSent' = (templateSent \/ outcome = "ok")
  /\ alive' = (outcome = "ok")
  /\ UNCHANGED <<collector, pc, evts, i, idx, buf, payload, sent, resp, result>>

\* accept_events entered: build_batch starts on a new, empty buffer.
Start(t, events) ==
  /\ alive
  /\ pc[t] = "idle"
  /\ pc' = [pc EXCEPT ![t] = "build"]
  /\ evts' = [evts EXCEPT ![t] = events]
  /\ i' = [i EXCEPT ![t] = 0]
  /\ buf' = [buf EXCEPT ![BufOf(t)] = <<>>]
  /\ UNCHANGED <<collector, alive, templateSent, tplReq, idx, payload, sent, resp, result>>

\* One iteration of build_batch's loop.
BuildStep(t) ==
  /\ pc[t] = "build"
  /\ i[t] < Len(evts[t])
  /\ LET evt == evts[t][i[t] + 1]
         ix == Index(collector.template, evt.timestamp)
     IN /\ idx' = [idx EXCEPT ![t] = ix]
        /\ buf' = [buf EXCEPT ![BufOf(t)] = buf[BufOf(t)] \o BatchEntry(evt, ix)]
  /\ i' = [i EXCEPT ![t] = i[t] + 1]
  /\ UNCHANGED <<collector, alive, templateSent, tplReq, pc, evts, payload, sent, resp, result>>

\* build_batch returns its buffer, send_batch posts it, accept_events returns.
Send(t, outcome) ==
  /\ pc[t] = "build"
  /\ i[t] = Len(evts[t])
  /\ LET p == buf[BufOf(t)]
         r == SendBatch(collector.params, p, outcome)
     IN /\ payload' = [payload EXCEPT ![t] = p]
        /\ sent' = [sent EXCEPT ![t] = r.posts]
        /\ result' = [result EXCEPT ![t] = r.ret]
  /\ resp' = [resp EXCEPT ![t] = outcome]
  /\ pc' = [pc EXCEPT ![t] = "done"]
  /\ UNCHANGED <<collector, alive, templateSent, tplReq, evts, i, idx, buf>>

\* The caller has seen the result; the call's locals are gone.
Finish(t) ==
  /\ pc[t] = "done"
  /\ pc' = [pc EXCEPT ![t] = "idle"]
  /\ evts' = [evts EXCEPT ![t] = <<>>]
  /\ i' = [i EXCEPT ![t] = 0]
  /\ idx' = [idx EXCEPT ![t] = <<>>]
  /\ buf' = [buf EXCEPT ![BufOf(t)] = <<>>]
  /\ payload' = [payload EXCEPT ![t] = <<>>]
  /\ sent' = [sent EXCEPT ![t] = <<>>]
  /\ resp' = [resp EXCEPT ![t] = "none"]
  /\ result' = [result EXCEPT ![t] = "none"]
  /\ UNCHANGED <<collector, alive, templateSent, tplReq>>

\* One caller: the collector is configured, optionally registers its template,
\* and accepts batches one after the other.
Next ==
  \/ \E o \in Outcomes : SendTemplate(o)
  \/ \E es \in Slices(EventPool, MaxEvents) : Start(1, es)
  \/ BuildStep(1)
  \/ \E o \in Outcomes : Send(1, o)
  \/ Finish(1)

Spec == Init /\ [][Next]_vars

\* Two callers share the collector (it is Sync) and call accept_events at will.
NextConc ==
  \E t \in Threads :
    \/ \E es \in Slices(ConcEventPool, MaxConcEvents) : Start(t, es)
    \/ BuildStep(t)
    \/ \E o \in Outcomes : Send(t, o)
    \/ Finish(t)

SpecConc == InitConc /\ [][NextConc]_vars

(***************************************************************************)
(* The date pattern of the "@t" mapping, read the way Elasticsearch reads  *)
(* it (a Joda-Time pattern): a run of a pattern letter is a field, text in *)
(* single quotes is literal, a letter outside quotes that is no pattern    *)
(* letter makes the pattern illegal, anything else is literal.             *)
(***************************************************************************)
JodaLetters ==
  {"a","b","c","d","e","f","g","h","i","j","k","l","m","n","o","p","q","r","s","t","u","v","w","x","y","z",
   "A","B","C","D","E","F","G","H","I","J","K","L","M","N","O","P","Q","R","S","T","U","V","W","X","Y","Z"}

\* year, month, day, hour of day, minute, second, fraction of second
JodaNumeric == {"y", "M", "d", "H", "m", "s", "S"}

RECURSIVE RunLength(_, _)
RunLength(pat, c) == IF pat # <<>> /\ pat[1] = c THEN 1 + RunLength(Tail(pat), c) ELSE 0

RECURSIVE ToNat(_)
ToNat(ds) == IF ds = <<>> THEN 0
             ELSE 10 * ToNat(SubSeq(ds, 1, Len(ds) - 1)) + DigitValue(ds[Len(ds)])

FieldInRange(c, v) ==
  CASE c = "M" -> v \in 1..12
    [] c = "d" -> v \in 1..31
    [] c = "H" -> v \in 0..23
    [] c = "m" -> v \in 0..59
    [] c = "s" -> v \in 0..59
    [] OTHER -> TRUE

RECURSIVE JodaMatches(_, _)
\* Whether the text s parses as a date under the pattern pat.
JodaMatches(pat, s) ==
  IF pat = <<>> THEN s = <<>>
  ELSE LET c == pat[1]
       IN IF c = "'"
          THEN LET close == Find(<<"'">>, Tail(pat))
                   lit == SubSeq(pat, 2, close)
               IN /\ close # 0
                  /\ OccursAt(lit, s, 1)
                  /\ JodaMatches(SubSeq(pat, close + 2, Len(pat)), SubSeq(s, Len(lit) + 1, Len(s)))
          ELSE IF c \in JodaLetters
          THEN LET n == RunLength(pat, c)
                   rest == SubSeq(pat, n + 1, Len(pat))
               IN IF c \in JodaNumeric
                  THEN /\ Len(s) >= n
                       /\ \A k \in 1..n : IsDigit(s[k])
                       /\ FieldInRange(c, ToNat(SubSeq(s, 1, n)))
                       /\ JodaMatches(rest, SubSeq(s, n + 1, Len(s)))
                  ELSE IF c = "Z"
                  THEN \/ /\ s # <<>>
                          /\ s[1] = "Z"
                          /\ JodaMatches(rest, Tail(s))
                       \/ /\ Len(s) >= 5
                          /\ s[1] \in {"+", "-"}
                          /\ \A k \in 2..5 : IsDigit(s[k])
                          /\ JodaMatches(rest, SubSeq(s, 6, Len(s)))
                  ELSE FALSE
          ELSE /\ s # <<>>
               /\ s[1] = c
               /\ JodaMatches(Tail(pat), Tail(s))

(***************************************************************************)
(* Properties.                                                             *)
(***************************************************************************)
\* The action line the bulk API expects for an index name.
ExpectedActionLine(ix) == <<"{","\"","i","n","d","e","x","\"",":","{","\"","_","i","n","d","e","x","\"",":","\"">> \o ix \o <<"\"",",","\"","_","t","y","p","e","\"",":","\"","e","m","i","t","l","o","g","\"","}","}">>

\* The lines of the payload build_batch returned to caller t.
LinesOf(t) == SplitLines(payload[t])

Done(t) == pc[t] = "done"

\* The text is the action/document pairs of the first n of the events, in
\* order, each line ended by a newline, and nothing else.
PairsOf(text, events, n, template) ==
  LET lines == SplitLines(text)
  IN /\ NewlineTerminated(text)
     /\ Len(lines) = 2 * n
     /\ \A k \in 1..n :
          /\ lines[2 * k - 1] = ExpectedActionLine(Index(template, events[k].timestamp))
          /\ lines[2 * k] = WriteEvent(events[k])

C2_IndexIsPrefixThenDate ==
  \A t \in Threads :
    i[t] > 0 =>
      LET e == evts[t][i[t]]
          tp == collector.template
          p == Len(tp.prefix)
      IN /\ SubSeq(idx[t], 1, p) = tp.prefix
         /\ SubSeq(idx[t], p + 1, Len(idx[t])) = Strftime(tp.date_format, e.timestamp)
         /\ (tp.prefix = TestPrefix /\ e.timestamp = TestDate =>
               /\ (tp.date_format = <<"%","Y">> => idx[t] = <<"t","e","s","t","l","o","g","-","2","0","1","4">>)
               /\ (tp.date_format = <<"%","Y","%","m">> => idx[t] = <<"t","e","s","t","l","o","g","-","2","0","1","4","0","7">>)
               /\ (tp.date_format = <<"%","Y","%","m","%","d">> => idx[t] = <<"t","e","s","t","l","o","g","-","2","0","1","4","0","7","0","8">>))

C2_Witness ==
  /\ i[1] > 0
  /\ collector.template.date_format = <<"%","Y","%","m">>
  /\ idx[1] = <<"t","e","s","t","l","o","g","-","2","0","1","4","0","7">>

\* The short code of a level.
ShortCode(level) ==
  CASE level = "Error" -> <<"E","R","R","O","R">>
    [] level = "Warn" -> <<"W","A","R","N">>
    [] level = "Info" -> <<"I","N","F","O">>
    [] level = "Debug" -> <<"D","E","B","U","G">>
    [] level = "Trace" -> <<"T","R","A","C","E">>

\* C3 as stated: whatever the level, the document line of an event has all
\* four fixed fields "@t", "@m", "@i" and "@l" (the level's short code).
C3_AllFourFieldsAlways ==
  \A t \in Threads :
    Done(t) =>
      \A k \in 1..Len(evts[t]) :
        LET line == LinesOf(t)[2 * k]
        IN /\ HasField(line, <<"@","t">>)
           /\ HasField(line, <<"@","m">>)
           /\ HasField(line, <<"@","i">>)
           /\ HasField(line, <<"@","l">>)
           /\ StringField(line, <<"@","l">>) = ShortCode(evts[t][k].level)

\* C3 amended: every document line has "@t", "@m" and "@i"; it has "@l", the
\* level's short code, exactly when the event's level is not Info.
C3_FixedFields ==
  \A t \in Threads :
    Done(t) =>
      \A k \in 1..Len(evts[t]) :
        LET line == LinesOf(t)[2 * k]
            level == evts[t][k].level
        IN /\ HasField(line, <<"@","t">>)
           /\ HasField(line, <<"@","m">>)
           /\ HasField(line, <<"@","i">>)
           /\ (HasField(line, <<"@","l">>) <=> level # "Info")
           /\ (level # "Info" => StringField(line, <<"@","l">>) = ShortCode(level))

C3_Witness ==
  /\ Done(1)
  /\ Len(evts[1]) = 2
  /\ evts[1][1].level = "Warn"
  /\ evts[1][2].level = "Info"
  /\ ~HasField(LinesOf(1)[4], <<"@","l">>)

\* A template with its (single) placeholder taken out.
WithoutPlaceholder(text) ==
  LET open == Find(<<"{">>, text)
      close == Find(<<"}">>, text)
  IN SubSeq(text, 1, open - 1) \o SubSeq(text, close + 1, Len(text))

\* C4: a placeholder whose property is missing is replaced by the empty string,
\* the rest of the template being kept ("The number is {number}" renders to
\* "The number is "), and the batch still has both lines of the event.
C4_MissingPropertyRendersEmpty ==
  \A t \in Threads :
    Done(t) =>
      \A k \in 1..Len(evts[t]) :
        LET e == evts[t][k]
        IN (e.properties = <<>> /\ Contains(<<"{">>, e.template)) =>
             /\ Len(LinesOf(t)) = 2 * Len(evts[t])
             /\ LinesOf(t)[2 * k - 1] =
                  ExpectedActionLine(Index(collector.template, e.timestamp))
             /\ StringField(LinesOf(t)[2 * k], <<"@","m">>) = WithoutPlaceholder(e.template)
             /\ (e.template = NumberTemplate =>
                   StringField(LinesOf(t)[2 * k], <<"@","m">>) = <<"T","h","e"," ","n","u","m","b","e","r"," ","i","s"," ">>)

C4_Witness ==
  /\ Done(1)
  /\ Len(evts[1]) = 1
  /\ evts[1][1] = EvInfo
  /\ StringField(LinesOf(1)[2], <<"@","m">>) = <<"T","h","e"," ","n","u","m","b","e","r"," ","i","s"," ">>

\* C5: two events with the same template text get the same id, whatever their
\* timestamps, levels and property values, a missing property included.
C5_IdDependsOnlyOnTemplate ==
  \A t \in Threads :
    Done(t) =>
      \A k, l \in 1..Len(evts[t]) :
        evts[t][k].template = evts[t][l].template =>
          /\ Len(StringField(LinesOf(t)[2 * k], <<"@","i">>)) = 8
          /\ StringField(LinesOf(t)[2 * k], <<"@","i">>) = StringField(LinesOf(t)[2 * l], <<"@","i">>)

C5_Witness ==
  /\ Done(1)
  /\ Len(evts[1]) = 2
  /\ evts[1][1] = EvDebug
  /\ evts[1][2] = EvInfo
  /\ StringField(LinesOf(1)[2], <<"@","i">>) = StringField(LinesOf(1)[4], <<"@","i">>)

C8_OneRequestWholeBatch ==
  \A t \in Threads :
    Done(t) =>
      /\ Len(sent[t]) = 1
      /\ sent[t][1].body = payload[t]
      /\ Len(SplitLines(sent[t][1].body)) = 2 * Len(evts[t])
      /\ (resp[t] = "fail" <=> result[t] = "Err")
      /\ (resp[t] = "ok" <=> result[t] = "Ok")

C8_Witness ==
  /\ Done(1)
  /\ Len(evts[1]) = 2
  /\ resp[1] = "fail"
  /\ result[1] = "Err"
  /\ Len(sent[1]) = 1

\* What a call has written so far (its buffer) or returned (its payload) is
\* the pairs of the events of its own slice it has gone through.
OwnPairsOnly(at, returned, buffer, events, n, template) ==
  at # "idle" => PairsOf(IF at = "done" THEN returned ELSE buffer, events, n, template)

\* C9: under every interleaving of two callers, what each call has built (and
\* then sends) is exactly the pairs of its own slice, in order, and no step of
\* a call changes the collector's template or request parameters.
C9_NoInterference ==
  [][/\ \A t \in Threads :
          /\ OwnPairsOnly(pc'[t], payload'[t], buf'[BufOf(t)], evts'[t], i'[t], collector'.template)
          /\ (pc'[t] = "done" => /\ Len(sent'[t]) = 1
                                 /\ sent'[t][1].body = payload'[t]
                                 /\ sent'[t][1].params = collector.params)
     /\ collector' = collector]_vars

C9_Witness ==
  /\ pc[1] = "build"
  /\ pc[2] = "build"
  /\ i[1] = 1
  /\ i[2] = 1
  /\ Len(evts[1]) = 2
  /\ evts[1][1] # evts[2][1]

\* C10: a call issues exactly one bulk request whatever happened before: no
\* index template request is needed first, and an empty slice still issues
\* one request, with an empty body.
C10_OnePostPerCall ==
  /\ \A t \in Threads :
       Done(t) => /\ Len(sent[t]) = 1
                  /\ (evts[t] = <<>> => sent[t][1].body = <<>>)
  /\ (alive /\ pc[1] = "idle" /\ tplReq = <<>>) => ENABLED Start(1, <<>>)

C10_Witness ==
  /\ Done(1)
  /\ evts[1] = <<>>
  /\ tplReq = <<>>
  /\ ~templateSent
  /\ Len(sent[1]) = 1
  /\ sent[1][1].body = <<>>

====
